---- MODULE Spec2Model ----
(***************************************************************************)
(* Model of nominatim/tokenizer/icu_rule_loader.py: the variant-rule       *)
(* compiler (_VariantMaker, _create_variants) and the rule loader          *)
(* (ICURuleLoader, TokenAnalyzerRule).                                     *)
(*                                                                         *)
(* A Python string is a sequence of one-character strings, so that the     *)
(* regular expressions and the string operations of the source can be      *)
(* computed character by character.                                        *)
(***************************************************************************)
EXTENDS Integers, Sequences, FiniteSets, TLC

\* ------------------------------------------------------------------ bounds

\* longest word handed to the word-descriptor parser
MaxWordLen == 4
\* most analyzer sections in a token-analysis list
MaxSections == 2
\* longest generated source or replacement text handed to _create_variants
MaxTextLen == 2
\* most source words, and most replacement words, of a generated rule line
MaxSrcWords == 2
MaxReplWords == 2

\* ------------------------------------------------------------ Python values

\* Python's None where a string is expected: no string has this shape, since
\* every element of a string is a single character.
None == <<"<None>">>

\* ---------------------------------------------------------- string helpers

RECURSIVE lstrip(_)
lstrip(s) == IF s # <<>> /\ Head(s) = " " THEN lstrip(Tail(s)) ELSE s

RECURSIVE rstrip(_)
rstrip(s) ==
    IF s # <<>> /\ s[Len(s)] = " " THEN rstrip(SubSeq(s, 1, Len(s) - 1)) ELSE s

\* str.strip()
strip(s) == rstrip(lstrip(s))

\* str.split(','): never empty, "".split(',') is [""]
RECURSIVE split(_)
split(s) ==
    LET commas == {i \in 1..Len(s) : s[i] = ","}
    IN  IF commas = {} THEN <<s>>
        ELSE LET i == CHOOSE k \in commas : \A m \in commas : k <= m
             IN  <<SubSeq(s, 1, i - 1)>> \o split(SubSeq(s, i + 1, Len(s)))

\* The normalization rule lines the model knows. A rule string is the
\* sequence of its rule lines, each followed by the ";" that
\* _cfg_to_icu_rules appends.
RuleLower == ":: lower ()"
RuleDropHyphen == "'-' > ''"

\* Transliterator.createFromRules(norm_rules).transliterate(text): lower-cases
\* under RuleLower and deletes hyphens under RuleDropHyphen.
RECURSIVE transliterate(_, _)
transliterate(norm_rules, text) ==
    IF text = <<>> THEN <<>>
    ELSE LET c == Head(text)
             has(r) == \E i \in 1..Len(norm_rules) : norm_rules[i] = r
             rest == transliterate(norm_rules, Tail(text))
         IN  IF c = "-" /\ has(RuleDropHyphen) THEN rest
             ELSE IF c = "A" /\ has(RuleLower) THEN <<"a">> \o rest
             ELSE <<c>> \o rest

\* --------------------------------------------------- _parse_variant_word

\* re.fullmatch(r'([~^]?)([^~$^]*)([~$]?)', name): the ways to cut name into
\* three groups, as <<end of group 1, end of group 2>>.
VariantWordMatches(name) ==
    {c \in (0..1) \X (0..Len(name)) :
        /\ c[1] <= c[2]
        /\ c[1] <= Len(name)
        /\ c[1] = 1 => name[1] \in {"~", "^"}
        /\ \A k \in (c[1] + 1)..c[2] : name[k] \notin {"~", "$", "^"}
        /\ Len(name) - c[2] <= 1
        /\ Len(name) - c[2] = 1 => name[Len(name)] \in {"~", "$"}}

\* The match the regex engine returns: every quantifier is greedy, so group 1
\* is as long as possible and then group 2 is.
VariantWordMatch(name) ==
    LET ms == VariantWordMatches(name)
    IN  CHOOSE c \in ms :
            \A d \in ms : d[1] < c[1] \/ (d[1] = c[1] /\ d[2] <= c[2])

Absent == [kind |-> "absent", text |-> <<>>, pre |-> <<>>, post |-> <<>>]
WordError == [kind |-> "error", text |-> <<>>, pre |-> <<>>, post |-> <<>>]

both_elidable_never(g1, g3) == FALSE

\* line 240: match.group(1) == '~' and match.group(3) == '~'
both_elidable(g1, g3) == g1 = <<"~">> /\ g3 = <<"~">>

\* _VariantMaker._parse_variant_word: None is Absent, UsageError is WordError
parse_variant_word(norm_rules, word) ==
    LET descriptor(norm_name, g1, g3) ==
            IF both_elidable(g1, g3) THEN WordError
            ELSE IF norm_name = <<>> THEN Absent
            ELSE [kind |-> "word", text |-> norm_name, pre |-> g1, post |-> g3]
        groups(name, m) ==
            descriptor(transliterate(norm_rules, SubSeq(name, m[1] + 1, m[2])),
                       SubSeq(name, 1, m[1]),
                       SubSeq(name, m[2] + 1, Len(name)))
        match(name) ==
            IF VariantWordMatches(name) = {} THEN WordError
            ELSE groups(name, VariantWordMatch(name))
    IN  match(strip(word))

\* ------------------------------------------------------- _create_variants

FLAG_MATCH_mirrored(flag) ==
    IF flag = <<"^">> THEN <<"^", " ">>
    ELSE IF flag = <<"$">> THEN <<" ", "$">>
    ELSE <<" ">>

\* _FLAG_MATCH, keyed by the flag ("" is the empty string)
FLAG_MATCH(flag) ==
    IF flag = <<"^">> THEN <<"^", " ">>
    ELSE IF flag = <<"$">> THEN <<" ", "^">>
    ELSE <<" ">>

SP == <<" ">>

\* the pairs the prose description of the trailing-elidable case gives: the
\* space goes after the word and the extra space before it
create_variants_trailing_first(src, preflag, postflag, repl, decompose) ==
    IF preflag = <<"~">> \/ postflag = <<"~">> THEN
        LET s == src \o SP
            r == repl \o SP
        IN  <<<<s, r>>, <<SP \o s, SP \o r>>>>
            \o (IF decompose THEN <<<<s, SP \o r>>, <<SP \o s, r>>>> ELSE <<>>)
    ELSE
        <<<<FLAG_MATCH(preflag) \o src \o FLAG_MATCH(postflag),
            FLAG_MATCH(preflag) \o repl \o FLAG_MATCH(postflag)>>>>

create_variants_nocross(src, preflag, postflag, repl, decompose) ==
    IF preflag = <<"~">> THEN
        LET s == src \o FLAG_MATCH(postflag)
            r == repl \o FLAG_MATCH(postflag)
        IN  <<<<s, r>>, <<SP \o s, SP \o r>>>>
    ELSE IF postflag = <<"~">> THEN
        LET s == FLAG_MATCH(preflag) \o src
            r == FLAG_MATCH(preflag) \o repl
        IN  <<<<s, r>>, <<s \o SP, r \o SP>>>>
    ELSE
        <<<<FLAG_MATCH(preflag) \o src \o FLAG_MATCH(postflag),
            FLAG_MATCH(preflag) \o repl \o FLAG_MATCH(postflag)>>>>

\* _create_variants: the pairs in the order the generator yields them
create_variants(src, preflag, postflag, repl, decompose) ==
    IF preflag = <<"~">> THEN
        LET s == src \o FLAG_MATCH(postflag)
            r == repl \o FLAG_MATCH(postflag)
        IN  <<<<s, r>>, <<SP \o s, SP \o r>>>>
            \o (IF decompose THEN <<<<s, SP \o r>>, <<SP \o s, r>>>> ELSE <<>>)
    ELSE IF postflag = <<"~">> THEN
        LET s == FLAG_MATCH(preflag) \o src
            r == FLAG_MATCH(preflag) \o repl
        IN  <<<<s, r>>, <<s \o SP, r \o SP>>>>
            \o (IF decompose THEN <<<<s, r \o SP>>, <<s \o SP, r>>>> ELSE <<>>)
    ELSE
        <<<<FLAG_MATCH(preflag) \o src \o FLAG_MATCH(postflag),
            FLAG_MATCH(preflag) \o repl \o FLAG_MATCH(postflag)>>>>

\* ------------------------------------------------------ _VariantMaker.compute

\* the regular expression (\|)?([=-])> tried at position i of s: the length of
\* the match, 0 when there is none; the optional bar is tried first
RuleOpMatchLen(s, i) ==
    IF i + 2 <= Len(s) /\ s[i] = "|" /\ s[i + 1] \in {"=", "-"} /\ s[i + 2] = ">"
    THEN 3
    ELSE IF i + 1 <= Len(s) /\ s[i] \in {"=", "-"} /\ s[i + 1] = ">"
    THEN 2
    ELSE 0

\* re.split(r'(\|)?([=-])>', rule): the text before the leftmost match, its
\* two groups (None for the bar that is not there), then the split of the rest
RECURSIVE re_split(_)
re_split(s) ==
    LET hits == {i \in 1..Len(s) : RuleOpMatchLen(s, i) > 0}
    IN  IF hits = {} THEN <<s>>
        ELSE LET i == CHOOSE k \in hits : \A m \in hits : k <= m
                 n == RuleOpMatchLen(s, i)
             IN  <<SubSeq(s, 1, i - 1),
                   IF n = 3 THEN <<"|">> ELSE None,
                   <<s[i + n - 2]>>>>
                 \o re_split(SubSeq(s, i + n, Len(s)))

keep_source_never(op) == FALSE

\* line 225: parts[2] == '-'
keep_source(op) == op = <<"-">>

repl_given_always(repl) == TRUE

\* line 232: the truth value of repl in "if src and repl"
repl_given(repl) == repl # <<>>

\* variants.ICUVariant(froms, tos, props) for every pair of a sequence
ICUVariants(pairs, props) ==
    [i \in 1..Len(pairs) |-> <<pairs[i][1], pairs[i][2], props>>]

\* lines 226-229: the 1:1 replacements of the source terms from the k-th on
RECURSIVE compute_keep(_, _, _, _)
compute_keep(src_terms, k, decompose, props) ==
    IF k > Len(src_terms) THEN <<>>
    ELSE LET src == src_terms[k]
         IN  (IF src.kind = "word"
              THEN ICUVariants(create_variants(src.text, src.pre, src.post,
                                               src.text, decompose), props)
              ELSE <<>>)
             \o compute_keep(src_terms, k + 1, decompose, props)

\* lines 231-234: itertools.product(src_terms, repl_terms) from the pair
\* (k, j) on, the replacement terms running fastest
RECURSIVE compute_product(_, _, _, _, _, _)
compute_product(src_terms, repl_terms, k, j, decompose, props) ==
    IF k > Len(src_terms) THEN <<>>
    ELSE IF j > Len(repl_terms)
    THEN compute_product(src_terms, repl_terms, k + 1, 1, decompose, props)
    ELSE LET src == src_terms[k]
             repl == repl_terms[j]
         IN  (IF src.kind = "word" /\ repl_given(repl)
              THEN ICUVariants(create_variants(src.text, src.pre, src.post,
                                               repl, decompose), props)
              ELSE <<>>)
             \o compute_product(src_terms, repl_terms, k, j + 1, decompose, props)

\* _VariantMaker.compute, run to the end as set.update() does: the entries
\* in the order they are yielded, or the UsageError raised
compute(norm_rules, rule, props) ==
    LET src_terms_of(words) ==
            [i \in 1..Len(words) |-> parse_variant_word(norm_rules, words[i])]
        repl_terms_of(repls) ==
            [i \in 1..Len(repls) |-> transliterate(norm_rules, strip(repls[i]))]
        yield(src_terms, repl_terms, keep, decompose) ==
            IF \E i \in 1..Len(src_terms) : src_terms[i].kind = "error"
            THEN [err |-> "UsageError", out |-> <<>>]
            ELSE [err |-> "",
                  out |-> (IF keep
                           THEN compute_keep(src_terms, 1, decompose, props)
                           ELSE <<>>)
                          \o compute_product(src_terms, repl_terms, 1, 1,
                                             decompose, props)]
        run(parts) ==
            IF Len(parts) # 4 THEN [err |-> "UsageError", out |-> <<>>]
            ELSE yield(src_terms_of(split(parts[1])),
                       repl_terms_of(split(parts[4])),
                       keep_source(parts[3]),
                       parts[2] = None)
    IN  run(re_split(rule))

\* ------------------------------------------------------- configuration values

\* A configuration list is a sequence of groups, a group being a nested list
\* of the document (an entry that is not a list is a group of one).
\* flatten_config_list(content, section): the entries of all groups, in order
RECURSIVE flatten_config_list(_)
flatten_config_list(content) ==
    IF content = <<>> THEN <<>>
    ELSE Head(content) \o flatten_config_list(Tail(content))

\* ';'.join(lines) + ';' on the rule lines: every line followed by its ";"
RECURSIVE join_rules(_)
join_rules(lines) ==
    IF lines = <<>> THEN <<>>
    ELSE IF Len(lines) = 1 THEN <<lines[1]>>
    ELSE <<lines[1], ";">> \o join_rules(Tail(lines))

\* ICURuleLoader._cfg_to_icu_rules for a section that is present: content is
\* [null |-> TRUE] for a section without content
cfg_to_icu_rules(content) ==
    IF content.null THEN <<>>
    ELSE join_rules(flatten_config_list(content.list)) \o <<";">>

\* variants.ICUVariantProperties.from_rules(section)
from_rules(section) == section.props

\* json.dumps of the token-analysis value: a mapping key that is not a string
\* is written as a string, everything else as it is
json_dumps(rules) ==
    [json |-> [kind |-> rules.kind,
               sections |-> [i \in 1..Len(rules.sections) |->
                   [rules.sections[i] EXCEPT
                       !.extra = IF @ = "1:int" THEN "1:str" ELSE @]]]]

\* json.loads of a text json.dumps wrote
json_loads(text) == text.json

\* ------------------------------------------------------- TokenAnalyzerRule

\* lines 198-199: the rules of one 'words' list, from the k-th on, added to
\* the variants; the first error ends it
RECURSIVE parse_words(_, _, _, _, _)
parse_words(norm_rules, words, k, props, acc) ==
    IF k > Len(words) THEN [err |-> "", variants |-> acc]
    ELSE LET update(c) ==
                 IF c.err # "" THEN [err |-> c.err, variants |-> acc]
                 ELSE parse_words(norm_rules, words, k + 1, props,
                                  acc \cup {c.out[i] : i \in 1..Len(c.out)})
         IN  update(compute(norm_rules, words[k], props))

\* lines 187-199: the sections of a flattened 'variants' list from the k-th on
RECURSIVE parse_sections(_, _, _, _)
parse_sections(norm_rules, rules, k, acc) ==
    IF k > Len(rules) THEN [err |-> "", variants |-> acc]
    ELSE LET next(r) ==
                 IF r.err # "" THEN r
                 ELSE parse_sections(norm_rules, rules, k + 1, r.variants)
         IN  next(parse_words(norm_rules, rules[k].words, 1,
                              from_rules(rules[k]), acc))

\* TokenAnalyzerRule.__init__ with _parse_variant_list: the variant set, or
\* the error raised. A Transliterator cannot be created from None.
TokenAnalyzerRule(section, normalization_rules) ==
    IF section.variants = <<>> THEN [err |-> "", variants |-> {}]
    ELSE IF normalization_rules = None THEN [err |-> "TypeError", variants |-> {}]
    ELSE parse_sections(normalization_rules,
                        flatten_config_list(section.variants), 1, {})

\* ----------------------------------------------- ICURuleLoader._setup_analysis

EmptyMap == [x \in {} |-> {}]

\* lines 120-129: the sections from the k-th on; analysis is the map built
\* so far and stays as it is when a section raises. For a name that is
\* already in the map, lines 123-128 log the fatal message and build a
\* UsageError that is not raised: the section then replaces the earlier one.
RECURSIVE setup_sections(_, _, _, _, _)
setup_sections(sections, k, normalization_rules, analysis, fatal) ==
    IF k > Len(sections) THEN [err |-> "", analysis |-> analysis, fatal |-> fatal]
    ELSE LET name == sections[k].id
             logged == fatal \/ name \in DOMAIN analysis
             assign(rule) ==
                 IF rule.err # ""
                 THEN [err |-> rule.err, analysis |-> analysis, fatal |-> logged]
                 ELSE setup_sections(sections, k + 1, normalization_rules,
                                     (name :> rule.variants) @@ analysis, logged)
         IN  assign(TokenAnalyzerRule(sections[k], normalization_rules))

\* ICURuleLoader._setup_analysis: self.analysis as the call leaves it, the
\* error it raises and whether it logged a fatal message
setup_analysis(analysis_rules, normalization_rules) ==
    IF analysis_rules.kind # "list"
    THEN [err |-> "UsageError", analysis |-> EmptyMap, fatal |-> FALSE]
    ELSE setup_sections(analysis_rules.sections, 1, normalization_rules,
                        EmptyMap, FALSE)

\* --------------------------------------------------------------- the inputs

\* rule lines of the configurations: "A=>b" compiles to different entries
\* under different normalization rules, "a>b" is a syntax error
RuleGood == <<"A", "=", ">", "b">>
RuleBad == <<"a", ">", "b">>

IdX == <<"x">>

\* 'variants' of a section: one group holding one property section
Variants(words) == <<<<[props |-> "lang", words |-> words]>>>>

\* the analyzer sections: 'id' (None when the key is missing), 'variants'
\* (empty when missing) and one further key of the mapping ("" for none,
\* "1:int" for the integer 1)
Sections ==
    { [id |-> None, variants |-> Variants(<<RuleGood>>), extra |-> "1:int"],
      [id |-> IdX, variants |-> Variants(<<RuleGood>>), extra |-> ""],
      [id |-> IdX, variants |-> Variants(<<RuleGood, RuleBad>>), extra |-> ""] }

SectionLists ==
    UNION { [1..n -> Sections] : n \in 0..MaxSections }

\* the values of the 'token-analysis' key: a list of sections or a mapping
AnalysisValues ==
    { [kind |-> "list", sections |-> l] : l \in SectionLists }
    \cup { [kind |-> "mapping", sections |-> <<>>] }

YamlNull == [null |-> TRUE, list |-> <<>>]

\* 'normalization' and 'transliteration' of a document: both without
\* content, or both a list of rule lines (one of them in a nested list)
NoRules == [normalization |-> YamlNull, transliteration |-> YamlNull]

SomeRules ==
    [normalization |-> [null |-> FALSE, list |-> <<<<RuleLower>>, <<RuleDropHyphen>>>>],
     transliteration |-> [null |-> FALSE, list |-> <<<<":: Latin ()">>>>]]

RuleValues == { NoRules, SomeRules }

\* the documents load_sub_configuration returns, has_analysis being whether
\* the 'token-analysis' key is there: every token-analysis value with rule
\* lines, a default analyzer without them, and a document without the key
Configs ==
    { [normalization |-> SomeRules.normalization,
       transliteration |-> SomeRules.transliteration,
       has_analysis |-> TRUE, analysis |-> a] : a \in AnalysisValues }
    \cup { [normalization |-> YamlNull, transliteration |-> YamlNull,
             has_analysis |-> TRUE,
             analysis |-> [kind |-> "list",
                           sections |-> <<[id |-> None,
                                           variants |-> Variants(<<RuleGood>>),
                                           extra |-> "1:int"]>>]],
            [normalization |-> YamlNull, transliteration |-> YamlNull,
             has_analysis |-> FALSE,
             analysis |-> [kind |-> "list", sections |-> <<>>]] }

\* ----------------------------------------------------------------- the state

VARIABLES
    constructed,            \* an ICURuleLoader exists
    normalization_rules,    \* self.normalization_rules
    transliteration_rules,  \* self.transliteration_rules
    analysis_rules,         \* self.analysis_rules
    analysis,               \* self.analysis: id -> variant set
    db,                     \* the property store: the values of the three keys
    op,                     \* the operation that ran last
    raised,                 \* the error it raised, "" for none
    fatal,                  \* it called LOG.fatal
    load_ok,                \* history: the loader's last load succeeded
    saved,                  \* history: the loader as it was at the last save
    arg,                    \* input of the function under test
    result                  \* its result

vars == <<constructed, normalization_rules, transliteration_rules, analysis_rules,
          analysis, db, op, raised, fatal, load_ok, saved, arg, result>>

loader == <<constructed, normalization_rules, transliteration_rules,
            analysis_rules, analysis>>

NoSnapshot ==
    [valid |-> FALSE, normalization_rules |-> <<>>, transliteration_rules |-> <<>>,
     analysis_rules |-> [kind |-> "list", sections |-> <<>>], analysis |-> EmptyMap]

\* the store with none of the three keys
EmptyDb == [norm |-> None, trans |-> None, analysis |-> <<>>]

\* the store as an earlier import left it: the rules of some configuration
\* document, written by whichever version of the software ran the import
ImportedDbs ==
    { [norm |-> cfg_to_icu_rules(c.normalization),
       trans |-> cfg_to_icu_rules(c.transliteration),
       analysis |-> <<json_dumps(c.analysis)>>] : c \in Configs }

Init ==
    /\ constructed = FALSE
    /\ normalization_rules = <<>>
    /\ transliteration_rules = <<>>
    /\ analysis_rules = [kind |-> "list", sections |-> <<>>]
    /\ analysis = EmptyMap
    /\ db \in {EmptyDb} \cup ImportedDbs
    /\ op = "none"
    /\ raised = ""
    /\ fatal = FALSE
    /\ load_ok = FALSE
    /\ saved = NoSnapshot
    /\ arg = <<>>
    /\ result = <<>>

\* ICURuleLoader.__init__(config): when it raises there is no new object and
\* the loader the caller had, if any, is as it was
Construct(cfg) ==
    \E norm \in {cfg_to_icu_rules(cfg.normalization)},
       trans \in {cfg_to_icu_rules(cfg.transliteration)} :
        /\ op' = "__init__"
        /\ IF ~cfg.has_analysis
           THEN /\ raised' = "UsageError"
                /\ fatal' = TRUE
                /\ UNCHANGED <<loader, load_ok>>
           ELSE \E r \in {setup_analysis(cfg.analysis, norm)} :
                /\ raised' = r.err
                /\ fatal' = r.fatal
                /\ IF r.err # "" THEN UNCHANGED <<loader, load_ok>>
                   ELSE /\ constructed' = TRUE
                        /\ normalization_rules' = norm
                        /\ transliteration_rules' = trans
                        /\ analysis_rules' = cfg.analysis
                        /\ analysis' = r.analysis
                        /\ load_ok' = TRUE
        /\ result' = <<>>
        /\ UNCHANGED <<db, saved, arg>>

\* ICURuleLoader.load_config_from_db: the assignments made before an error
\* stay. get_property gives None for a key that is not there, and
\* json.loads(None) is a TypeError.
load_config_from_db ==
    /\ constructed
    /\ op' = "load_config_from_db"
    /\ normalization_rules' = db.norm
    /\ transliteration_rules' = db.trans
    /\ IF db.analysis = <<>>
       THEN /\ raised' = "TypeError"
            /\ fatal' = FALSE
            /\ UNCHANGED <<analysis_rules, analysis>>
       ELSE \E r \in {setup_analysis(json_loads(db.analysis[1]), db.norm)} :
                /\ analysis_rules' = json_loads(db.analysis[1])
                /\ analysis' = r.analysis
                /\ raised' = r.err
                /\ fatal' = r.fatal
    /\ load_ok' = (raised' = "")
    /\ result' = <<>>
    /\ UNCHANGED <<constructed, db, saved, arg>>

save_config_to_db_swapped ==
    /\ constructed
    /\ op' = "save_config_to_db"
    /\ db' = [norm |-> transliteration_rules,
              trans |-> normalization_rules,
              analysis |-> <<json_dumps(analysis_rules)>>]
    /\ raised' = ""
    /\ fatal' = FALSE
    /\ saved' = [valid |-> load_ok,
                 normalization_rules |-> normalization_rules,
                 transliteration_rules |-> transliteration_rules,
                 analysis_rules |-> analysis_rules,
                 analysis |-> analysis]
    /\ result' = <<>>
    /\ UNCHANGED <<loader, load_ok, arg>>

\* ICURuleLoader.save_config_to_db
save_config_to_db ==
    /\ constructed
    /\ op' = "save_config_to_db"
    /\ db' = [norm |-> normalization_rules,
              trans |-> transliteration_rules,
              analysis |-> <<json_dumps(analysis_rules)>>]
    /\ raised' = ""
    /\ fatal' = FALSE
    /\ saved' = [valid |-> load_ok,
                 normalization_rules |-> normalization_rules,
                 transliteration_rules |-> transliteration_rules,
                 analysis_rules |-> analysis_rules,
                 analysis |-> analysis]
    /\ result' = <<>>
    /\ UNCHANGED <<loader, load_ok, arg>>

\* ICURuleLoader.make_token_analysis: self.analysis[None] is a KeyError when
\* there is no default analyzer; result is what ICUNameProcessor is given
make_token_analysis ==
    /\ constructed
    /\ op' = "make_token_analysis"
    /\ fatal' = FALSE
    /\ IF None \in DOMAIN analysis
       THEN /\ raised' = ""
            /\ result' = <<normalization_rules, transliteration_rules,
                            analysis[None]>>
       ELSE /\ raised' = "KeyError"
            /\ result' = <<>>
    /\ UNCHANGED <<loader, db, load_ok, saved, arg>>

Next ==
    \/ \E cfg \in Configs : Construct(cfg)
    \/ load_config_from_db
    \/ save_config_to_db
    \/ make_token_analysis

Spec == Init /\ [][Next]_vars

\* ------------------------------------------- the functions on bounded inputs

\* all strings over an alphabet, up to a length
Strings(alphabet, n) == UNION { [1..k -> alphabet] : k \in 0..n }

\* the loader's variables while a function is exercised on its own
Idle ==
    /\ constructed = FALSE
    /\ normalization_rules = <<>>
    /\ transliteration_rules = <<>>
    /\ analysis_rules = [kind |-> "list", sections |-> <<>>]
    /\ analysis = EmptyMap
    /\ db = EmptyDb
    /\ raised = ""
    /\ fatal = FALSE
    /\ load_ok = FALSE
    /\ saved = NoSnapshot

unused == <<constructed, normalization_rules, transliteration_rules, analysis_rules,
            analysis, db, raised, fatal, load_ok, saved, arg>>

\* the normalization rule strings a _VariantMaker is built from
NormRules == { cfg_to_icu_rules(r.normalization) : r \in RuleValues }

\* _parse_variant_word on every word over the flag characters, letters,
\* hyphen and blank
WordAlphabet == {"a", "A", "-", " ", "~", "^", "$"}

InitParse ==
    /\ Idle
    /\ op = "none"
    /\ arg \in [norm : NormRules, word : Strings(WordAlphabet, MaxWordLen)]
    /\ result = <<>>

ParseWord ==
    /\ op = "none"
    /\ op' = "_parse_variant_word"
    /\ result' = <<parse_variant_word(arg.norm, arg.word)>>
    /\ UNCHANGED unused

NextParse == ParseWord

SpecParse == InitParse /\ [][NextParse]_vars

\* _create_variants on the word descriptors _parse_variant_word can return
\* (a text that is not empty, not both flags '~') and the replacements
\* compute passes (not empty)
Foo == <<"f", "o", "o">>
Bar == <<"b", "a", "r">>

Texts == (Strings({"a", "b"}, MaxTextLen) \ {<<>>}) \cup {Foo, Bar}

InitExpand ==
    /\ Idle
    /\ op = "none"
    /\ arg \in { a \in [src : Texts,
                         preflag : {<<>>, <<"^">>, <<"~">>},
                         postflag : {<<>>, <<"$">>, <<"~">>},
                         repl : Texts,
                         decompose : BOOLEAN] :
                    ~(a.preflag = <<"~">> /\ a.postflag = <<"~">>) }
    /\ result = <<>>

Expand ==
    /\ op = "none"
    /\ op' = "_create_variants"
    /\ result' = create_variants(arg.src, arg.preflag, arg.postflag, arg.repl,
                                 arg.decompose)
    /\ UNCHANGED unused

NextExpand == Expand

SpecExpand == InitExpand /\ [][NextExpand]_vars

\* compute on rule lines put together from source words, an operator and
\* replacement words; the last two operators are not operators of the grammar
SrcWords ==
    { <<"a">>, <<"b">>, <<"~", "A">>, <<"^", "a", "~">>, <<"-">>, <<"~", "a", "~">> }

ReplWords == { <<"c">>, <<>>, <<" ", "-">> }

Operators ==
    { <<"=", ">">>, <<"-", ">">>, <<"|", "=", ">">>, <<"|", "-", ">">>,
      <<">">>, <<"=", ">", "-", ">">> }

\* ','.join(words)
RECURSIVE join_words(_)
join_words(words) ==
    IF Len(words) = 1 THEN words[1]
    ELSE words[1] \o <<",">> \o join_words(Tail(words))

RuleLine(a) == join_words(a.srcs) \o a.operator \o join_words(a.repls)

InitCompute ==
    /\ Idle
    /\ op = "none"
    /\ arg \in [norm : NormRules,
                 srcs : UNION { [1..n -> SrcWords] : n \in 1..MaxSrcWords },
                 operator : Operators,
                 repls : UNION { [1..n -> ReplWords] : n \in 1..MaxReplWords }]
    /\ result = <<>>

Compute ==
    /\ op = "none"
    /\ op' = "compute"
    /\ result' = <<compute(arg.norm, RuleLine(arg), "lang")>>
    /\ UNCHANGED unused

NextCompute == Compute

SpecCompute == InitCompute /\ [][NextCompute]_vars

\* ===================================================================== claims

\* the pairs of a sequence, as a set
Range(seq) == { seq[i] : i \in 1..Len(seq) }

\* ---- _parse_variant_word (SpecParse)

\* the word without a leading '~' or '^' and, after that, without a trailing
\* '~' or '$'
Inner(name) ==
    LET a == IF name # <<>> /\ name[1] \in {"~", "^"} THEN Tail(name) ELSE name
    IN  IF a # <<>> /\ a[Len(a)] \in {"~", "$"} THEN SubSeq(a, 1, Len(a) - 1) ELSE a

\* C6: the parser rejects every word with '~' at both ends, the empty content
\* between them included; a descriptor it returns has a leading flag among
\* none, '^', '~', a trailing flag among none, '$', '~', not both '~', and
\* the normalized content as its text, which is not empty; a word that is
\* not rejected and whose normalized content is empty yields Absent.
C6_ParserRejectsBothElidable ==
    op = "_parse_variant_word" =>
        LET name == strip(arg.word)
            r == result[1]
        IN  /\ (Len(name) >= 2 /\ name[1] = "~" /\ name[Len(name)] = "~")
                    => r.kind = "error"
            /\ r.kind = "word" =>
                    /\ r.pre \in {<<>>, <<"^">>, <<"~">>}
                    /\ r.post \in {<<>>, <<"$">>, <<"~">>}
                    /\ ~(r.pre = <<"~">> /\ r.post = <<"~">>)
                    /\ r.text # <<>>
                    /\ r.text = transliterate(arg.norm, Inner(name))
                    /\ r.pre \o Inner(name) \o r.post = name
            /\ (r.kind # "error" /\ transliterate(arg.norm, Inner(name)) = <<>>)
                    => r = Absent
            /\ r.kind = "absent" => transliterate(arg.norm, Inner(name)) = <<>>

\* "~~", with nothing between the two flags, has been rejected
C6_Witness ==
    /\ op = "_parse_variant_word"
    /\ arg.word = <<"~", "~">>
    /\ result[1] = WordError

\* ---- _create_variants (SpecExpand)

OneElidable == (arg.preflag = <<"~">>) # (arg.postflag = <<"~">>)

\* C3, as the claim states it: for a source word with no leading flag and a
\* trailing '~', with decompose, the pairs are (s+" ", r+" "),
\* (" "+s+" ", " "+r+" "), (s+" ", " "+r+" "), (" "+s+" ", r+" ").
C3_AsClaimed ==
    (op = "_create_variants" /\ arg.preflag = <<>> /\ arg.postflag = <<"~">>
        /\ arg.decompose) =>
        LET s == arg.src
            r == arg.repl
        IN  Range(result) = { <<s \o SP, r \o SP>>,
                              <<SP \o s \o SP, SP \o r \o SP>>,
                              <<s \o SP, SP \o r \o SP>>,
                              <<SP \o s \o SP, r \o SP>> }

\* C3, amended: for a source word with no leading flag and a trailing '~',
\* with decompose, expand yields exactly the four pairs (" "+s, " "+r),
\* (" "+s+" ", " "+r+" "), (" "+s, " "+r+" "), (" "+s+" ", " "+r).
C3_TrailingElidablePairs ==
    (op = "_create_variants" /\ arg.preflag = <<>> /\ arg.postflag = <<"~">>
        /\ arg.decompose) =>
        LET s == arg.src
            r == arg.repl
        IN  /\ Len(result) = 4
            /\ Range(result) = { <<SP \o s, SP \o r>>,
                                  <<SP \o s \o SP, SP \o r \o SP>>,
                                  <<SP \o s, SP \o r \o SP>>,
                                  <<SP \o s \o SP, SP \o r>> }

\* "foo~" with replacement "bar" has been expanded with decompose
C3_Witness ==
    /\ op = "_create_variants"
    /\ arg = [src |-> Foo, preflag |-> <<>>, postflag |-> <<"~">>, repl |-> Bar,
              decompose |-> TRUE]
    /\ result = << <<<<" ", "f", "o", "o">>, <<" ", "b", "a", "r">>>>,
                   <<<<" ", "f", "o", "o", " ">>, <<" ", "b", "a", "r", " ">>>>,
                   <<<<" ", "f", "o", "o">>, <<" ", "b", "a", "r", " ">>>>,
                   <<<<" ", "f", "o", "o", " ">>, <<" ", "b", "a", "r">>>> >>

\* the result of _create_variants on the input of the state with decompose
\* set to d: the result of the state when that is its decompose
ExpandedWith(d) ==
    IF d = arg.decompose THEN result
    ELSE create_variants(arg.src, arg.preflag, arg.postflag, arg.repl, d)

\* the marker a flag that is not '~' stands for
Marker(flag) ==
    IF flag = <<"^">> THEN <<"^", " ">>
    ELSE IF flag = <<"$">> THEN <<" ", "^">>
    ELSE <<" ">>

\* a term of a word with one flag '~': the other side's marker on its side
Bare(text) ==
    IF arg.preflag = <<"~">> THEN text \o Marker(arg.postflag)
    ELSE Marker(arg.preflag) \o text

\* the same with the extra space on the side of the '~'
Spaced(text) ==
    IF arg.preflag = <<"~">> THEN SP \o Bare(text) ELSE Bare(text) \o SP

\* C4: for a source word with exactly one '~' flag, expand without decompose
\* yields exactly two pairs, both sides bare and both sides with the extra
\* space; they are among the four pairs it yields with decompose, whose two
\* other pairs are the cross combinations.
C4_DecomposeAddsCrossPairs ==
    (op = "_create_variants" /\ OneElidable) =>
        LET two == ExpandedWith(FALSE)
            four == ExpandedWith(TRUE)
            s == arg.src
            r == arg.repl
        IN  /\ Len(two) = 2
            /\ Range(two) = { <<Bare(s), Bare(r)>>, <<Spaced(s), Spaced(r)>> }
            /\ Len(four) = 4
            /\ Cardinality(Range(four)) = 4
            /\ Range(two) \subseteq Range(four)
            /\ Range(four) \ Range(two)
                   = { <<Bare(s), Spaced(r)>>, <<Spaced(s), Bare(r)>> }

\* "~a$" has been expanded without decompose, into its two pairs
C4_Witness ==
    /\ op = "_create_variants"
    /\ arg.preflag = <<"~">> /\ arg.postflag = <<"$">> /\ ~arg.decompose
    /\ arg.src = <<"a">> /\ arg.repl = <<"b">>
    /\ result = << <<<<"a", " ", "^">>, <<"b", " ", "^">>>>,
                   <<<<" ", "a", " ", "^">>, <<" ", "b", " ", "^">>>> >>

\* C10: for a source word with no '~' flag, expand yields exactly the one
\* pair (L + source + R, L + replacement + R), L being "^ " for a leading
\* '^' and " " for none, R being " ^" for a trailing '$' and " " for none,
\* whatever decompose is.
C10_NoElidableOnePair ==
    (op = "_create_variants" /\ arg.preflag # <<"~">> /\ arg.postflag # <<"~">>) =>
        LET L == IF arg.preflag = <<"^">> THEN <<"^", " ">> ELSE <<" ">>
            R == IF arg.postflag = <<"$">> THEN <<" ", "^">> ELSE <<" ">>
            pair == <<L \o arg.src \o R, L \o arg.repl \o R>>
        IN  /\ result = <<pair>>
            /\ ExpandedWith(~arg.decompose) = <<pair>>

\* "^a$" with replacement "b" has been expanded
C10_Witness ==
    /\ op = "_create_variants"
    /\ arg.preflag = <<"^">> /\ arg.postflag = <<"$">>
    /\ arg.src = <<"a">> /\ arg.repl = <<"b">>
    /\ result = << <<<<"^", " ", "a", " ", "^">>, <<"^", " ", "b", " ", "^">>>> >>

\* ---- _VariantMaker.compute (SpecCompute)

GrammarOperators ==
    { <<"=", ">">>, <<"-", ">">>, <<"|", "=", ">">>, <<"|", "-", ">">> }

\* the source words of the rule line of the state, parsed
ParsedSrcs ==
    [i \in 1..Len(arg.srcs) |-> parse_variant_word(arg.norm, arg.srcs[i])]

\* its replacement words, stripped and normalized
NormalizedRepls ==
    [i \in 1..Len(arg.repls) |-> transliterate(arg.norm, strip(arg.repls[i]))]

Decompose == Head(arg.operator) # "|"

\* the entries a source word gives with a replacement
EntriesOf(src, repl) ==
    { <<p[1], p[2], "lang">> :
        p \in Range(create_variants(src.text, src.pre, src.post, repl, Decompose)) }

\* the entries of the source words that are there with themselves
IdentityEntries ==
    UNION { EntriesOf(ParsedSrcs[i], ParsedSrcs[i].text) :
                i \in { k \in 1..Len(ParsedSrcs) : ParsedSrcs[k].kind = "word" } }

\* the entries of the source words that are there with the replacement
\* words that are not empty
ProductEntries ==
    UNION { EntriesOf(ParsedSrcs[c[1]], NormalizedRepls[c[2]]) :
                c \in { d \in (1..Len(ParsedSrcs)) \X (1..Len(NormalizedRepls)) :
                            /\ ParsedSrcs[d[1]].kind = "word"
                            /\ NormalizedRepls[d[2]] # <<>> } }

SrcsAccepted == \A i \in 1..Len(ParsedSrcs) : ParsedSrcs[i].kind # "error"

\* the text after the operator is empty
NoReplacement == arg.repls = <<<<>>>>

\* C2, as the claim states it: a rule line with nothing after the operator
\* fails with a syntax error.
C2_AsClaimed ==
    (op = "compute" /\ arg.operator \in GrammarOperators /\ NoReplacement)
        => result[1].err = "UsageError"

\* C2, amended: a rule line with nothing after the operator is not a syntax
\* error: compiling it fails only when a source word is rejected, and
\* otherwise returns no entry for "=>" and "|=>" and only the entries of
\* the source words with themselves for "->" and "|->".
C2_EmptyReplacementCompiles ==
    (op = "compute" /\ arg.operator \in GrammarOperators /\ NoReplacement) =>
        /\ result[1].err = (IF SrcsAccepted THEN "" ELSE "UsageError")
        /\ SrcsAccepted =>
               IF arg.operator \in {<<"=", ">">>, <<"|", "=", ">">>}
               THEN result[1].out = <<>>
               ELSE Range(result[1].out) = IdentityEntries

\* "a=>" has been compiled, to no entry and no error
C2_Witness ==
    /\ op = "compute"
    /\ RuleLine(arg) = <<"a", "=", ">">>
    /\ result[1] = [err |-> "", out |-> <<>>]

\* C5: "=>" and "|=>" give only the entries of the source words that are
\* there with the replacement words that are not empty; "->" and "|->" give
\* the entries of every source word that is there with itself, all of them
\* before any entry of the source words with the replacement words.
C5_OperatorDirection ==
    (op = "compute" /\ arg.operator \in GrammarOperators /\ SrcsAccepted) =>
        LET out == result[1].out
        IN  /\ result[1].err = ""
            /\ IF arg.operator \in {<<"=", ">">>, <<"|", "=", ">">>}
               THEN Range(out) = ProductEntries
               ELSE \E k \in 0..Len(out) :
                        /\ Range(SubSeq(out, 1, k)) = IdentityEntries
                        /\ Range(SubSeq(out, k + 1, Len(out))) = ProductEntries

\* "a,b->c" has been compiled to (a->a), (b->b), (a->c), (b->c)
C5_Witness ==
    /\ op = "compute"
    /\ arg.norm = <<>>
    /\ RuleLine(arg) = <<"a", ",", "b", "-", ">", "c">>
    /\ result[1].out = << <<<<" ", "a", " ">>, <<" ", "a", " ">>, "lang">>,
                          <<<<" ", "b", " ">>, <<" ", "b", " ">>, "lang">>,
                          <<<<" ", "a", " ">>, <<" ", "c", " ">>, "lang">>,
                          <<<<" ", "b", " ">>, <<" ", "c", " ">>, "lang">> >>

\* ---- ICURuleLoader (Spec)

Loads == {"__init__", "load_config_from_db"}

\* C1: a load of an analysis-rule list in which two sections have the same
\* id, or both have none, never completes successfully.
C1_DuplicateAnalyzerFails ==
    (op \in Loads /\ raised = "") =>
        \A i, j \in 1..Len(analysis_rules.sections) :
            analysis_rules.sections[i].id = analysis_rules.sections[j].id => i = j

\* C7: after a save by a loader whose load succeeded, a load from the store
\* succeeds and gives the rule strings the loader had, and an analyzer map
\* with the same ids and the same entries for every id; the save writes the
\* two rule strings and the serialized analysis rules of the loader under
\* the three keys and leaves the loader as it was.
C7_SaveLoadRoundTrip ==
    /\ (op = "load_config_from_db" /\ saved.valid) =>
            /\ raised = ""
            /\ normalization_rules = saved.normalization_rules
            /\ transliteration_rules = saved.transliteration_rules
            /\ DOMAIN analysis = DOMAIN saved.analysis
            /\ \A id \in DOMAIN analysis : analysis[id] = saved.analysis[id]
    /\ op = "save_config_to_db" =>
            /\ db = [norm |-> normalization_rules,
                     trans |-> transliteration_rules,
                     analysis |-> <<json_dumps(analysis_rules)>>]
            /\ constructed
            /\ normalization_rules = saved.normalization_rules
            /\ transliteration_rules = saved.transliteration_rules
            /\ analysis_rules = saved.analysis_rules
            /\ analysis = saved.analysis

\* a loader with a default analyzer that has entries was saved and loaded
\* again, the analysis rules coming back with the integer key as a string
C7_Witness ==
    /\ op = "load_config_from_db"
    /\ saved.valid
    /\ raised = ""
    /\ normalization_rules # <<>>
    /\ None \in DOMAIN analysis
    /\ analysis[None] # {}
    /\ analysis_rules # saved.analysis_rules

\* C8: once the loader's load has succeeded, make_token_analysis raises no
\* error.
C8_TokenAnalysisTotal ==
    (op = "make_token_analysis" /\ load_ok) => raised = ""

\* C9: a load that raises a syntax error for a rule line leaves no partial
\* state: the loader's analyzer map, rule strings and analysis rules are the
\* ones from before the load.
C9_FailedLoadDiscarded ==
    [][(op' \in Loads /\ raised' = "UsageError" /\ analysis_rules'.kind = "list")
          => loader' = loader]_vars

====
